---- MODULE Spec2Model ----
(***************************************************************************)
(* Model of epoliszuk/patching, src/src/patching.py.                       *)
(*                                                                         *)
(* OutVar rewrites the instruction sequence of a callable so that every    *)
(* RETURN_VALUE returns (result, captured locals...).  The model keeps one *)
(* callable `func`: its instruction sequence (func.__code__), the          *)
(* attribute OUTPATCHINFO, and the result of the last call.  Instruction   *)
(* sequences are the lists bytecode.Bytecode.from_code yields: Instr       *)
(* objects (which have a .name) and Label objects (which have none).       *)
(*                                                                         *)
(* Patching installs prefix / postfix wrappers on symbols of modules,      *)
(* keeps the requests for modules it cannot resolve in _PATCH_INFO and     *)
(* wraps builtins.__import__ to apply them when the module is imported.    *)
(***************************************************************************)
EXTENDS Integers, Sequences, FiniteSets, TLC

\* ------------------------------------------------------------------ bounds
\* longest tuple / list of names handed to one patch call
MaxNames == 2
\* patch is not called once the capture list would grow beyond this
MaxCapture == 4
\* wrapper layers on one symbol
MaxLayers == 2
\* wrappers around builtins.__import__
MaxHooks == 3
\* wrapper layers and pending requests, all modules and engines together
MaxPatches == 2

\* ------------------------------------------------------------------ values
\* Python values, tagged so that values of different types stay comparable.
IntV(n) == [t |-> "int", i |-> n, s |-> <<>>]
TupleV(elems) == [t |-> "tuple", i |-> 0, s |-> elems]
NoneV == [t |-> "none", i |-> 0, s |-> <<>>]
\* outcome of a call that raised
ErrV == [t |-> "error", i |-> 0, s |-> <<>>]
\* content of a local variable that was never assigned
Unbound == [t |-> "unbound", i |-> 0, s |-> <<>>]
\* True and False
BoolV(b) == [t |-> "bool", i |-> IF b THEN 1 ELSE 0, s |-> <<>>]
\* the (empty) kwargs dict
DictV == [t |-> "dict", i |-> 0, s |-> <<>>]

Truthy(v) ==
    CASE v.t = "int" -> v.i # 0
      [] v.t = "tuple" -> Len(v.s) > 0
      [] v.t = "bool" -> v.i # 0
      [] OTHER -> FALSE

\* ------------------------------------------------------------ instructions
\* bytecode.Instr(name, arg): `var` is the argument of LOAD_FAST/STORE_FAST,
\* `num` the argument of LOAD_CONST/BUILD_TUPLE or the label of a jump.
Instr(name, var, num) == [kind |-> "Instr", name |-> name, var |-> var, num |-> num]
\* bytecode.Label: a jump target kept in the list; it has no .name
Label(id) == [kind |-> "Label", name |-> "", var |-> "", num |-> id]

LOAD_FAST(x) == Instr("LOAD_FAST", x, 0)
STORE_FAST(x) == Instr("STORE_FAST", x, 0)
LOAD_CONST(n) == Instr("LOAD_CONST", "", n)
\* LOAD_CONST of True, False or None
LOAD_NAMED(c) == Instr("LOAD_CONST", c, 0)
BINARY_ADD == Instr("BINARY_ADD", "", 0)
POP_JUMP_IF_FALSE(id) == Instr("POP_JUMP_IF_FALSE", "", id)
BUILD_TUPLE(n) == Instr("BUILD_TUPLE", "", n)
RETURN_VALUE == Instr("RETURN_VALUE", "", 0)

\* ---------------------------------------------------------------- callables
\* The callables the operations are applied to: instruction sequence,
\* co_varnames (parameters first, then the other locals) and co_argcount.
\*   1  def f(a, b): return a + b
\*   2  def f(a, b): a = a + b; return a + b
\*   3  def f(a, b): t = a + b; return t
\*   4  def f(a, b):
\*          if a: return b
\*          return a + b
\*   5  two return instructions and no jump (LOAD a; RETURN; LOAD b; RETURN)
\*   6  def f(): return 7
Progs ==
    << [code |-> << LOAD_FAST("a"), LOAD_FAST("b"), BINARY_ADD, RETURN_VALUE >>,
        co_varnames |-> << "a", "b" >>, co_argcount |-> 2],
       [code |-> << LOAD_FAST("a"), LOAD_FAST("b"), BINARY_ADD, STORE_FAST("a"),
                    LOAD_FAST("a"), LOAD_FAST("b"), BINARY_ADD, RETURN_VALUE >>,
        co_varnames |-> << "a", "b" >>, co_argcount |-> 2],
       [code |-> << LOAD_FAST("a"), LOAD_FAST("b"), BINARY_ADD, STORE_FAST("t"),
                    LOAD_FAST("t"), RETURN_VALUE >>,
        co_varnames |-> << "a", "b", "t" >>, co_argcount |-> 2],
       [code |-> << LOAD_FAST("a"), POP_JUMP_IF_FALSE(1), LOAD_FAST("b"), RETURN_VALUE,
                    Label(1), LOAD_FAST("a"), LOAD_FAST("b"), BINARY_ADD, RETURN_VALUE >>,
        co_varnames |-> << "a", "b" >>, co_argcount |-> 2],
       [code |-> << LOAD_FAST("a"), RETURN_VALUE, LOAD_FAST("b"), RETURN_VALUE >>,
        co_varnames |-> << "a", "b" >>, co_argcount |-> 2],
       [code |-> << LOAD_CONST(7), RETURN_VALUE >>,
        co_varnames |-> << >>, co_argcount |-> 0] >>

\* positional arguments of the calls that are tried
ArgPairs == { << 3, 4 >>, << 0, 4 >>, << 13, 4 >> }

Range(s) == { s[k] : k \in 1..Len(s) }

\* number of RETURN_VALUE instructions of an instruction sequence
ReturnCount(c) == Cardinality({ k \in 1..Len(c) : c[k] = RETURN_VALUE })

\* ------------------------------------------------------------- interpreter
\* index of Label(id) in c, 0 when there is none
LabelIndex(c, id) ==
    LET hits == { k \in 1..Len(c) : c[k] = Label(id) }
    IN  IF hits = {} THEN 0 ELSE CHOOSE k \in hits : TRUE

\* the constant a LOAD_CONST pushes
ConstValue(ins) ==
    CASE ins.var = "True" -> BoolV(TRUE)
      [] ins.var = "False" -> BoolV(FALSE)
      [] ins.var = "None" -> NoneV
      [] OTHER -> IntV(ins.num)

PopN(stack, n) == SubSeq(stack, 1, Len(stack) - n)
TopN(stack, n) == SubSeq(stack, Len(stack) - n + 1, Len(stack))

Add(x, y) ==
    CASE x.t = "int" /\ y.t = "int" -> IntV(x.i + y.i)
      [] x.t = "tuple" /\ y.t = "tuple" -> TupleV(x.s \o y.s)
      [] OTHER -> ErrV

\* Runs instruction sequence c from position pc.  The outcome is the value
\* returned and the locals at the moment of return; a fault (stack underflow,
\* unbound local, falling off the end) gives ErrV.
RECURSIVE Exec(_, _, _, _, _)
Exec(c, pc, stack, loc, fuel) ==
    IF fuel = 0 \/ pc < 1 \/ pc > Len(c)
    THEN [val |-> ErrV, loc |-> loc]
    ELSE
      LET ins == c[pc] IN
      CASE ins.kind = "Label" -> Exec(c, pc + 1, stack, loc, fuel - 1)
        [] ins.kind = "Instr" /\ ins.name = "LOAD_FAST" ->
             IF loc[ins.var] = Unbound
             THEN [val |-> ErrV, loc |-> loc]
             ELSE Exec(c, pc + 1, Append(stack, loc[ins.var]), loc, fuel - 1)
        [] ins.kind = "Instr" /\ ins.name = "LOAD_CONST" ->
             Exec(c, pc + 1, Append(stack, ConstValue(ins)), loc, fuel - 1)
        [] ins.kind = "Instr" /\ ins.name = "STORE_FAST" ->
             IF Len(stack) < 1
             THEN [val |-> ErrV, loc |-> loc]
             ELSE Exec(c, pc + 1, PopN(stack, 1),
                       [loc EXCEPT ![ins.var] = stack[Len(stack)]], fuel - 1)
        [] ins.kind = "Instr" /\ ins.name = "BINARY_ADD" ->
             IF Len(stack) < 2
             THEN [val |-> ErrV, loc |-> loc]
             ELSE LET r == Add(stack[Len(stack) - 1], stack[Len(stack)])
                  IN  IF r = ErrV
                      THEN [val |-> ErrV, loc |-> loc]
                      ELSE Exec(c, pc + 1, Append(PopN(stack, 2), r), loc, fuel - 1)
        [] ins.kind = "Instr" /\ ins.name = "POP_JUMP_IF_FALSE" ->
             IF Len(stack) < 1
             THEN [val |-> ErrV, loc |-> loc]
             ELSE IF Truthy(stack[Len(stack)])
                  THEN Exec(c, pc + 1, PopN(stack, 1), loc, fuel - 1)
                  ELSE Exec(c, LabelIndex(c, ins.num), PopN(stack, 1), loc, fuel - 1)
        [] ins.kind = "Instr" /\ ins.name = "BUILD_TUPLE" ->
             IF Len(stack) < ins.num
             THEN [val |-> ErrV, loc |-> loc]
             ELSE Exec(c, pc + 1,
                       Append(PopN(stack, ins.num), TupleV(TopN(stack, ins.num))),
                       loc, fuel - 1)
        [] ins.kind = "Instr" /\ ins.name = "RETURN_VALUE" ->
             IF Len(stack) < 1
             THEN [val |-> ErrV, loc |-> loc]
             ELSE [val |-> stack[Len(stack)], loc |-> loc]
        [] OTHER -> [val |-> ErrV, loc |-> loc]

\* the frame's locals at entry: parameters bound to the arguments, the other
\* co_varnames unbound
EntryLocals(p, args) ==
    [ x \in Range(Progs[p].co_varnames) |->
        LET k == CHOOSE j \in 1..Len(Progs[p].co_varnames) : Progs[p].co_varnames[j] = x
        IN  IF k <= Progs[p].co_argcount THEN IntV(args[k]) ELSE Unbound ]

\* func(*args) with func.__code__ = c
Run(p, c, args) == Exec(c, 1, <<>>, EntryLocals(p, args), Len(c) + 1)

\* ------------------------------------------------------------------ OutVar
\* func.OUTPATCHINFO; present is hasattr(func, 'OUTPATCHINFO').  captured is
\* a tuple or a list of names, original the code of the retained copy.
NoInfo == [present |-> FALSE, captured |-> [kind |-> "tuple", seq |-> <<>>], original |-> <<>>]

\* the `names` argument: omitted, one str, a tuple or a list of names
NamesNone == [kind |-> "None", seq |-> <<>>]
NamesStr(x) == [kind |-> "str", seq |-> << x >>]

NameSeqs(p) == UNION { [1..n -> Range(Progs[p].co_varnames)] : n \in 0..MaxNames }

NamesInputs(p) ==
    { NamesNone }
      \cup { NamesStr(x) : x \in Range(Progs[p].co_varnames) }
      \cup { [kind |-> k, seq |-> q] : k \in { "tuple", "list" }, q \in NameSeqs(p) }

\* OutVar.is_patched
is_patched(info) == info.present

\* OutVar.get_info: the dict, or None
get_info(info) ==
    IF ~ is_patched(info) THEN [none |-> TRUE, val |-> NoInfo]
    ELSE [none |-> FALSE, val |-> info]

\* OutVar.get_capture: the captured names, or None
get_capture(info) ==
    IF ~ is_patched(info) THEN [none |-> TRUE, val |-> NoInfo.captured]
    ELSE [none |-> FALSE, val |-> info.captured]

\* OutVar.get_original: the code of the retained original, or None
get_original(info) ==
    IF ~ is_patched(info) THEN [none |-> TRUE, val |-> NoInfo.original]
    ELSE [none |-> FALSE, val |-> info.original]

\* list.insert(i, x) with Python's 0-based index: a negative index counts
\* from the end, and the index is clamped to 0..len
PyInsert(l, i, x) ==
    LET n == Len(l)
        j0 == IF i < 0 THEN i + n ELSE i
        j == IF j0 < 0 THEN 0 ELSE IF j0 > n THEN n ELSE j0
    IN  SubSeq(l, 1, j) \o << x >> \o SubSeq(l, j + 1, n)

\* InsertLoads with the loads inserted at ind instead of ind - 1
RECURSIVE InsertLoadsAtInd(_, _, _, _)
InsertLoadsAtInd(newcode, ind, names, k) ==
    IF k > Len(names) THEN newcode
    ELSE InsertLoadsAtInd(PyInsert(newcode, ind, LOAD_FAST(names[k])), ind, names, k + 1)

\* [newcode.insert(ind - 1, Instr('LOAD_FAST', x)) for x in names]
RECURSIVE InsertLoads(_, _, _, _)
InsertLoads(newcode, ind, names, k) ==
    IF k > Len(names) THEN newcode
    ELSE InsertLoads(PyInsert(newcode, ind - 1, LOAD_FAST(names[k])), ind, names, k + 1)

\* The loop of patch over copy(newcode), from element k of the snapshot on:
\* ind only advances at a RETURN_VALUE; reading .name of a Label raises
\* AttributeError.
RECURSIVE RewriteReturns(_, _, _, _, _)
RewriteReturns(snapshot, k, newcode, ind, names) ==
    IF k > Len(snapshot) THEN [raised |-> "", code |-> newcode]
    ELSE IF snapshot[k].kind = "Label" THEN [raised |-> "AttributeError", code |-> newcode]
    ELSE IF snapshot[k].name # "RETURN_VALUE"
         THEN RewriteReturns(snapshot, k + 1, newcode, ind, names)
         ELSE RewriteReturns(snapshot, k + 1,
                  PyInsert(InsertLoads(newcode, ind, names, 1), ind - 1,
                           BUILD_TUPLE(Len(names) + 1)),
                  ind + Len(names) + 1, names)

\* TRUE when the straight-line run of c from pc with `depth` values on the
\* stack pops from an empty stack before it returns
RECURSIVE Underflows(_, _, _)
Underflows(c, pc, depth) ==
    IF pc > Len(c) THEN FALSE
    ELSE
      LET ins == c[pc]
          need == CASE ins.name \in { "STORE_FAST", "POP_JUMP_IF_FALSE", "RETURN_VALUE" } -> 1
                    [] ins.name = "BINARY_ADD" -> 2
                    [] ins.name = "BUILD_TUPLE" -> ins.num
                    [] OTHER -> 0
          push == CASE ins.name \in { "LOAD_FAST", "LOAD_CONST", "BINARY_ADD", "BUILD_TUPLE" } -> 1
                    [] OTHER -> 0
      IN  IF depth < need THEN TRUE
          ELSE IF ins.name = "RETURN_VALUE" THEN FALSE
          ELSE Underflows(c, pc + 1, depth - need + push)

\* newcode.to_code(): the assembled code.  For a sequence that underflows the
\* stack the assembler may refuse (raise) or assemble it as it is.
to_code(newcode) ==
    { [raised |-> "", code |-> newcode] }
      \cup ( IF Underflows(newcode, 1, 0)
             THEN { [raised |-> "RuntimeError", code |-> newcode] }
             ELSE {} )

\* names after lines 133-138: omitted means co_varnames, a str becomes a
\* one-element tuple
ResolveNames(p, names) ==
    IF names.kind = "None" THEN [kind |-> "tuple", seq |-> Progs[p].co_varnames]
    ELSE IF names.kind = "str" THEN [kind |-> "tuple", seq |-> names.seq]
    ELSE names

\* names += self.get_capture(func): a list is extended by a tuple or a list,
\* a tuple is concatenated with a tuple; tuple + list raises TypeError
ExtendNames(names, captured) ==
    IF names.kind = "tuple" /\ captured.kind = "list"
    THEN [raised |-> "TypeError", names |-> names]
    ELSE [raised |-> "", names |-> [kind |-> names.kind, seq |-> names.seq \o captured.seq]]

\* IsEmptyNames with the test for no names left out
IsEmptyNamesNever(names) == FALSE

\* len(names) == 0, the test that makes patch return func as it is
IsEmptyNames(names) == Len(names.seq) = 0

\* OutVar.patch(func, names) on the callable p with func.__code__ = c and
\* func.OUTPATCHINFO = info: the set of possible outcomes, each the exception
\* raised ("" for none) and the code and OUTPATCHINFO func is left with
patch(p, c, info, names) ==
    LET unchanged(exc) == [raised |-> exc, code |-> c, info |-> info]
        resolved == ResolveNames(p, names)
    IN
    IF IsEmptyNames(resolved) THEN { unchanged("") }
    ELSE
      LET ext == IF is_patched(info) /\ ~ get_capture(info).none
                 THEN ExtendNames(resolved, get_capture(info).val)
                 ELSE [raised |-> "", names |-> resolved]
          oldfunc == IF is_patched(info) THEN get_original(info)
                     ELSE [none |-> TRUE, val |-> NoInfo.original]
          source == IF ~ oldfunc.none THEN oldfunc.val ELSE c
      IN
      IF ext.raised # "" THEN { unchanged(ext.raised) }
      ELSE
        LET rw == RewriteReturns(source, 1, source, 0, ext.names.seq) IN
        IF rw.raised # "" THEN { unchanged(rw.raised) }
        ELSE
          { IF asm.raised # "" THEN unchanged(asm.raised)
            ELSE [raised |-> "",
                  code |-> asm.code,
                  info |-> [present |-> TRUE,
                            captured |-> ext.names,
                            original |-> IF ~ oldfunc.none THEN oldfunc.val ELSE c]]
            : asm \in to_code(rw.code) }

\* unpatch without the assignment to func.__code__
unpatchKeepsCode(c, info) == [code |-> c, info |-> info]

\* OutVar.unpatch(func): the code and OUTPATCHINFO func is left with
unpatch(c, info) ==
    IF ~ is_patched(info) THEN [code |-> c, info |-> info]
    ELSE [code |-> get_original(info).val, info |-> info]

\* ---------------------------------------------------------------- Patching
\* Patching instances, by their name tag
Engines == { "A", "B" }

\* Modules of the process.  inspect is imported by patching.py itself, m and
\* n are imported by the program, if at all, after the engines exist.
Namespaces == { "inspect", "m", "n" }

\* module-valued globals of patching.py (its own imports)
PatchingGlobals == { "inspect" }

\* dir(base) of every module: the callables the module defines; no module
\* defines g
ModuleSyms == { "f" }
SymbolNames == { "f", "g" }

\* Interceptors: functions (args, kwargs, _result), given as instruction
\* sequences.
\*   1  _result = 42; return False
\*   2  return True
\*   3  return 1
\*   4  _result = _result + 12; return 5
\*   5  _result = 0; return 5
\*   6  return None
\*   7  if _result: return True
\*      return False
Interceptors ==
    << << LOAD_CONST(42), STORE_FAST("_result"), LOAD_NAMED("False"), RETURN_VALUE >>,
       << LOAD_NAMED("True"), RETURN_VALUE >>,
       << LOAD_CONST(1), RETURN_VALUE >>,
       << LOAD_FAST("_result"), LOAD_CONST(12), BINARY_ADD, STORE_FAST("_result"),
          LOAD_CONST(5), RETURN_VALUE >>,
       << LOAD_CONST(0), STORE_FAST("_result"), LOAD_CONST(5), RETURN_VALUE >>,
       << LOAD_NAMED("None"), RETURN_VALUE >>,
       << LOAD_FAST("_result"), POP_JUMP_IF_FALSE(1), LOAD_NAMED("True"), RETURN_VALUE,
          Label(1), LOAD_NAMED("False"), RETURN_VALUE >> >>

InterceptorIds == 1..Len(Interceptors)

\* the interceptors installed as prefixes and as postfixes
PrefixInterceptors == { 1, 2, 3, 6, 7 }
PostfixInterceptors == { 4, 5, 6, 7 }

\* the interceptor handed to prefix / postfix of an engine
QueuedInterceptors == { 1 }

\* the interceptor functions as defined: __code__ and no OUTPATCHINFO
FreshInterceptors == [ i \in InterceptorIds |-> [code |-> Interceptors[i], info |-> NoInfo] ]

\* a wrapper installed by _prefix_atom / _postfix_atom: its closure holds the
\* interceptor, and this_func is what lies below it in the chain
Layer(kind, icp) == [kind |-> kind, icp |-> icp]

\* one step of an invocation: the interceptor of a layer was called with
\* result as its third argument and returned out (ErrV when it raised), or
\* (kind "original") the module's own function was called and returned result
Ran(kind, icp, result, out) == [kind |-> kind, icp |-> icp, result |-> result, out |-> out]

\* a pending request: the tuple (patch_type, name, prefix)
Entry(kind, name, icp) == [kind |-> kind, name |-> name, icp |-> icp]

\* result of an import: a module object (by its __name__) or None
ModuleRef(ns) == [none |-> FALSE, name |-> ns]
NoneRef == [none |-> TRUE, name |-> ""]

\* _prefix_atom without the else branch that raises
prefix_atom_silent(bind, base, name, icp) ==
    IF name \in DOMAIN bind[base]
    THEN [raised |-> "",
          bind |-> [bind EXCEPT ![base][name] = Append(@, Layer("prefix", icp))]]
    ELSE [raised |-> "", bind |-> bind]

\* Patching._prefix_atom(base, name, prefix) on the bindings of all modules:
\* setattr(base, name, _wrapper), or AttributeError when name is not in
\* dir(base)
prefix_atom(bind, base, name, icp) ==
    IF name \in DOMAIN bind[base]
    THEN [raised |-> "",
          bind |-> [bind EXCEPT ![base][name] = Append(@, Layer("prefix", icp))]]
    ELSE [raised |-> "AttributeError", bind |-> bind]

\* Patching._postfix_atom(base, name, postfix)
postfix_atom(bind, base, name, icp) ==
    IF name \in DOMAIN bind[base]
    THEN [raised |-> "",
          bind |-> [bind EXCEPT ![base][name] = Append(@, Layer("postfix", icp))]]
    ELSE [raised |-> "AttributeError", bind |-> bind]

\* the atom a pending tuple stands for (process_imports, lines 331-335)
apply_entry(bind, base, tup) ==
    IF tup.kind = "prefix" THEN prefix_atom(bind, base, tup.name, tup.icp)
    ELSE postfix_atom(bind, base, tup.name, tup.icp)

\* The for loop of process_imports over copy(self._PATCH_INFO[name]): todo
\* are the tuples of the snapshot not yet visited, pend is the live set.  A
\* set is iterated in no particular order, so every order is an outcome; the
\* loop ends at the first atom that raises; notfound is the name in the
\* message of that error, "{name} not found in {base}.".
RECURSIVE Drain(_, _, _, _)
Drain(todo, base, bind, pend) ==
    IF todo = {} THEN { [raised |-> "", notfound |-> "", bind |-> bind, pend |-> pend] }
    ELSE UNION { LET a == apply_entry(bind, base, tup) IN
                 IF a.raised # ""
                 THEN { [raised |-> a.raised, notfound |-> tup.name,
                         bind |-> bind, pend |-> pend] }
                 ELSE Drain(todo \ { tup }, base, a.bind, pend \ { tup })
                 : tup \in todo }

\* process_imports(_, __, result) of engine e: the outcomes, each with the
\* value the function returns (it has no return statement: None)
process_imports(e, result, bind, info) ==
    IF result.none
    THEN { [raised |-> "AttributeError", notfound |-> "", ret |-> NoneRef,
            bind |-> bind, info |-> info] }
    ELSE { [raised |-> d.raised,
            notfound |-> d.notfound,
            ret |-> NoneRef,
            bind |-> d.bind,
            info |-> [info EXCEPT ![e][result.name] = d.pend]]
           : d \in Drain(info[e][result.name], result.name, bind, info[e][result.name]) }

\* builtins.__import__(ns) with the wrappers hk[1..k] around the builtin, each
\* the _postfix_wrapper of elementary_postfix: result = func(...), then
\* return prefix(args, kwargs, result) with prefix = process_imports of the
\* engine hk[k]
RECURSIVE import_call(_, _, _, _, _)
import_call(hk, k, ns, bind, info) ==
    IF k = 0
    THEN { [raised |-> "", notfound |-> "", ret |-> ModuleRef(ns),
            bind |-> bind, info |-> info] }
    ELSE UNION { IF inner.raised # "" THEN { inner }
                 ELSE process_imports(hk[k], inner.ret, inner.bind, inner.info)
                 : inner \in import_call(hk, k - 1, ns, bind, info) }

\* _patch__import__._wrapper up to the call of func: builtins.__import__ is
\* wrapped again unless the PATCH dict of the current builtins.__import__ has
\* the engine's name; the new wrapper gets a PATCH dict of its own
ensure_hook(hk, flags, e) ==
    IF e \in flags THEN [hooks |-> hk, PATCH |-> flags]
    ELSE [hooks |-> Append(hk, e), PATCH |-> { e }]

\* the test of prefix / postfix for applying at once: module names a
\* module-valued global of the calling frame, which is the frame of
\* _patch__import__._wrapper, in patching.py
resolves_now(module) == module \in PatchingGlobals

\* Patching.prefix / Patching.postfix(module, name, interceptor) of engine e
\* after the hook is ensured: apply the atom at once or queue the tuple
request(kind, e, module, name, icp, bind, info) ==
    IF resolves_now(module)
    THEN LET a == apply_entry(bind, module, Entry(kind, name, icp))
         IN  [raised |-> a.raised,
              notfound |-> IF a.raised # "" THEN name ELSE "",
              bind |-> a.bind, info |-> info]
    ELSE [raised |-> "",
          notfound |-> "",
          bind |-> bind,
          info |-> [info EXCEPT ![e][module] = @ \cup { Entry(kind, name, icp) }]]

\* locals of an interceptor called as interceptor(args, kwargs, _result)
InterceptorLocals(args, result) ==
    [ x \in { "args", "kwargs", "_result" } |->
        CASE x = "args" -> TupleV(<< IntV(args[1]), IntV(args[2]) >>)
          [] x = "kwargs" -> DictV
          [] OTHER -> result ]

\* OutVar.patch(prefix, '_result') and then prefix(args, kwargs, _result):
\* the outcomes, each with whether the interceptor was reached, the tuple the
\* patched interceptor returned and the state ist of the interceptor
\* functions afterwards
call_patched(ist, icp, args, result) ==
    { IF p.raised # ""
      THEN [raised |-> TRUE, called |-> FALSE, out |-> ErrV, ist |-> ist]
      ELSE LET r == Exec(p.code, 1, <<>>, InterceptorLocals(args, result),
                         Len(p.code) + 1).val
               after == [ist EXCEPT ![icp] = [code |-> p.code, info |-> p.info]]
           IN  [raised |-> (r.t # "tuple" \/ Len(r.s) < 2), called |-> TRUE,
                out |-> r, ist |-> after]
      : p \in patch(1, ist[icp].code, ist[icp].info, NamesStr("_result")) }

\* the test with every first element taken as a signal to proceed
proceeds_always(v) == TRUE

\* prefix_out[0] is True
proceeds(v) == v = BoolV(TRUE)

\* _result or postfix_out[0]
result_or(result, direct) == IF Truthy(result) THEN result ELSE direct

\* Calling the binding chain[1..k] (chain[k] outermost, k = 0 the module's
\* own function, here f(a, b) = a + b) with args: the outcomes, each with the
\* value returned (ErrV when the call raised), the interceptor functions
\* afterwards, and the order in which interceptors and the original ran.
RECURSIVE invoke(_, _, _, _, _)
invoke(chain, k, args, ist, trace) ==
    IF k = 0
    THEN LET v == Run(1, Progs[1].code, args).val IN
         { [val |-> v, ist |-> ist, trace |-> Append(trace, Ran("original", 0, v, v))] }
    ELSE IF chain[k].kind = "prefix"
    THEN UNION { LET tr == IF c.called
                           THEN Append(trace, Ran("prefix", chain[k].icp, NoneV, c.out))
                           ELSE trace
                 IN
                 IF c.raised THEN { [val |-> ErrV, ist |-> c.ist, trace |-> tr] }
                 ELSE IF proceeds(c.out.s[1]) THEN invoke(chain, k - 1, args, c.ist, tr)
                 ELSE { [val |-> c.out.s[2], ist |-> c.ist, trace |-> tr] }
                 : c \in call_patched(ist, chain[k].icp, args, NoneV) }
    ELSE UNION { IF inner.val = ErrV THEN { inner }
                 ELSE { LET tr == IF c.called
                                  THEN Append(inner.trace,
                                              Ran("postfix", chain[k].icp, inner.val, c.out))
                                  ELSE inner.trace
                        IN
                        IF c.raised THEN [val |-> ErrV, ist |-> c.ist, trace |-> tr]
                        ELSE [val |-> result_or(c.out.s[2], c.out.s[1]),
                              ist |-> c.ist,
                              trace |-> tr]
                        : c \in call_patched(inner.ist, chain[k].icp, args, inner.val) }
                 : inner \in invoke(chain, k - 1, args, ist, trace) }

\* ------------------------------------------------- elementary wrappers
\* the callables elementary_prefix / elementary_postfix are applied to
ElemFuncs == { 1, 5, 6 }

\* The interceptors handed to them, plain functions:
\*   1  prints its arguments and returns None (prefix_one)
\*   2  prints its arguments and returns its last argument (postfix_one)
ElemInterceptors == { 1, 2 }

\* what interceptor icp returns when called with the positional arguments
\* received
ElemReturn(icp, received) ==
    IF icp = 2 /\ Len(received) > 0 THEN received[Len(received)] ELSE NoneV

\* the positional arguments of the calls that are tried on callable p
ElemArgLists(p) == IF Progs[p].co_argcount = 2 THEN ArgPairs ELSE { << >> }

\* the int arguments as values
Values(args) == [ k \in 1..Len(args) |-> IntV(args[k]) ]

\* the frame's locals at entry when the positional arguments are the values
\* vals
EntryLocalsOf(p, vals) ==
    [ x \in Range(Progs[p].co_varnames) |->
        LET k == CHOOSE j \in 1..Len(Progs[p].co_varnames) : Progs[p].co_varnames[j] = x
        IN  IF k <= Progs[p].co_argcount THEN vals[k] ELSE Unbound ]

\* func(*vals): TypeError (ErrV) unless there is one value per parameter
RunWith(p, vals) ==
    IF Len(vals) # Progs[p].co_argcount THEN ErrV
    ELSE Exec(Progs[p].code, 1, << >>, EntryLocalsOf(p, vals), Len(Progs[p].code) + 1).val

\* one step of a call through elementary wrappers: the interceptor of a layer
\* (or, kind "func", the wrapped callable) was called with the positional
\* arguments received and returned out
ElemStep(kind, icp, received, out) == Ran(kind, icp, TupleV(received), out)

\* what _prefix_wrapper hands to func: func(args, kwargs)
forward_prefix(vals) == << TupleV(vals), DictV >>

\* Calling chain[1..k] of elementary wrappers around callable p (chain[k]
\* outermost) with the positional arguments vals and no keyword argument: the
\* value returned (ErrV when the call raised) and the steps taken.
RECURSIVE elementary_call(_, _, _, _, _)
elementary_call(p, chain, k, vals, trace) ==
    IF k = 0
    THEN LET v == RunWith(p, vals)
         IN  [val |-> v, trace |-> Append(trace, ElemStep("func", 0, vals, v))]
    ELSE IF chain[k].kind = "elementary_prefix"
    THEN LET received == << TupleV(vals), DictV >>
             out == ElemReturn(chain[k].icp, received)
             tr == Append(trace, ElemStep("elementary_prefix", chain[k].icp, received, out))
         IN  elementary_call(p, chain, k - 1, forward_prefix(vals), tr)
    ELSE LET inner == elementary_call(p, chain, k - 1, vals, trace) IN
         IF inner.val = ErrV THEN inner
         ELSE LET received == << TupleV(vals), DictV, inner.val >>
                  out == ElemReturn(chain[k].icp, received)
              IN  [val |-> out,
                   trace |-> Append(inner.trace,
                                    ElemStep("elementary_postfix", chain[k].icp, received, out))]

\* ------------------------------------------------------------ state machine
VARIABLES
    prog,          \* which callable of Progs func is
    func_code,     \* func.__code__, as an instruction sequence
    OUTPATCHINFO,  \* func.OUTPATCHINFO
    last,          \* the last patch / unpatch call: its argument and outcome; kind
                   \* is patch_first (f had no OUTPATCHINFO), patch_again (it
                   \* had), patch_noop (no names), patch_raise, unpatch (f had
                   \* OUTPATCHINFO) or unpatch_noop (it had not)
    pre,           \* func.__code__ and OUTPATCHINFO before that call
    prevOp,        \* the outcome kind of the call before that one
    ret,           \* the last call of func since then: arguments and result
    sys_modules,   \* names of the modules imported so far
    bindings,      \* bindings[ns][sym]: the wrapper layers on ns.sym, innermost first
    PATCH_INFO,    \* PATCH_INFO[e][ns]: the set _PATCH_INFO[ns] of engine e
                   \* (a missing key and an empty set behave alike)
    hooks,         \* the engines whose process_imports wraps builtins.__import__,
                   \* innermost first
    PATCH,         \* keys of the PATCH dict of the current builtins.__import__
    used,          \* engines whose prefix / postfix has been called
    istate,        \* __code__ and OUTPATCHINFO of every interceptor function
    ev,            \* the last operation on the engines and its outcome
    evpre          \* bindings, PATCH_INFO, hooks, istate and sys_modules before it

outvarVars == << prog, func_code, OUTPATCHINFO, last, pre, prevOp, ret >>
engineVars == << sys_modules, bindings, PATCH_INFO, hooks, PATCH, used, istate, ev, evpre >>
vars == << outvarVars, engineVars >>

NoCall == [called |-> FALSE, args |-> << 0, 0 >>, val |-> NoneV]

\* ev when the last operation is op, with the fields that do not apply
Event(op) ==
    [op |-> op, engine |-> "", kind |-> "", ns |-> "", name |-> "", icp |-> 0,
     args |-> << 0, 0 >>, raised |-> "", notfound |-> "", ret |-> NoneRef,
     val |-> NoneV, trace |-> << >>]

Snapshot ==
    [bindings |-> bindings, info |-> PATCH_INFO, hooks |-> hooks, istate |-> istate,
     modules |-> sys_modules]

\* the process after `import patching`: no engine has been used
EngineInit ==
    /\ sys_modules = PatchingGlobals
    /\ bindings = [ ns \in Namespaces |-> [ sym \in ModuleSyms |-> << >> ] ]
    /\ PATCH_INFO = [ e \in Engines |-> [ ns \in Namespaces |-> {} ] ]
    /\ hooks = << >>
    /\ PATCH = {}
    /\ used = {}
    /\ istate = FreshInterceptors
    /\ ev = Event("init")
    /\ evpre = Snapshot

\* the callable f before any patch
OutVarInit ==
    /\ func_code = Progs[prog].code
    /\ OUTPATCHINFO = NoInfo
    /\ last = [kind |-> "init", names |-> NamesNone, raised |-> ""]
    /\ pre = [code |-> Progs[prog].code, info |-> NoInfo]
    /\ prevOp = "init"
    /\ ret = NoCall

Init ==
    /\ prog \in 1..Len(Progs)
    /\ OutVarInit
    /\ EngineInit

\* OutVar.patch(func, names)
Patch(names) ==
    /\ Len(ResolveNames(prog, names).seq) + Len(OUTPATCHINFO.captured.seq) <= MaxCapture
    /\ \E out \in patch(prog, func_code, OUTPATCHINFO, names) :
         /\ func_code' = out.code
         /\ OUTPATCHINFO' = out.info
         /\ last' = [kind |-> IF out.raised # "" THEN "patch_raise"
                              ELSE IF Len(ResolveNames(prog, names).seq) = 0 THEN "patch_noop"
                              ELSE IF is_patched(OUTPATCHINFO) THEN "patch_again"
                              ELSE "patch_first",
                     names |-> names,
                     raised |-> out.raised]
    /\ pre' = [code |-> func_code, info |-> OUTPATCHINFO]
    /\ prevOp' = last.kind
    /\ ret' = NoCall
    /\ UNCHANGED << prog, engineVars >>

\* OutVar.unpatch(func)
Unpatch ==
    /\ LET out == unpatch(func_code, OUTPATCHINFO) IN
         /\ func_code' = out.code
         /\ OUTPATCHINFO' = out.info
    /\ last' = [kind |-> IF is_patched(OUTPATCHINFO) THEN "unpatch" ELSE "unpatch_noop",
                names |-> NamesNone,
                raised |-> ""]
    /\ pre' = [code |-> func_code, info |-> OUTPATCHINFO]
    /\ prevOp' = last.kind
    /\ ret' = NoCall
    /\ UNCHANGED << prog, engineVars >>

\* func(*args)
Call(args) ==
    /\ ret' = [called |-> TRUE, args |-> args, val |-> Run(prog, func_code, args).val]
    /\ UNCHANGED << prog, func_code, OUTPATCHINFO, last, pre, prevOp, engineVars >>

Next ==
    \/ \E names \in NamesInputs(prog) : Patch(names)
    \/ Unpatch
    \/ \E args \in ArgPairs : Call(args)

Spec == Init /\ [][Next]_vars

\* ------------------------------------------- state machine of the wrappers
\* The module m is imported; _prefix_atom and _postfix_atom put wrappers on
\* m.f, and m.f is called.
WrappedModule == "m"
WrappedSym == "f"

\* how often a call of the chain may hand interceptor icp to OutVar.patch
PatchCalls(chain, icp) == Cardinality({ k \in 1..Len(chain) : chain[k].icp = icp })

InitWrap ==
    /\ prog = 1
    /\ OutVarInit
    /\ EngineInit

\* Patching._prefix_atom(m, "f", interceptor)
PrefixAtom(icp) ==
    /\ Len(bindings[WrappedModule][WrappedSym]) < MaxLayers
    /\ LET a == prefix_atom(bindings, WrappedModule, WrappedSym, icp) IN
         /\ bindings' = a.bind
         /\ ev' = [Event("atom") EXCEPT !.kind = "prefix", !.ns = WrappedModule,
                                        !.name = WrappedSym, !.icp = icp,
                                        !.raised = a.raised]
    /\ evpre' = Snapshot
    /\ UNCHANGED << outvarVars, sys_modules, PATCH_INFO, hooks, PATCH, used, istate >>

\* Patching._postfix_atom(m, "f", interceptor)
PostfixAtom(icp) ==
    /\ Len(bindings[WrappedModule][WrappedSym]) < MaxLayers
    /\ LET a == postfix_atom(bindings, WrappedModule, WrappedSym, icp) IN
         /\ bindings' = a.bind
         /\ ev' = [Event("atom") EXCEPT !.kind = "postfix", !.ns = WrappedModule,
                                        !.name = WrappedSym, !.icp = icp,
                                        !.raised = a.raised]
    /\ evpre' = Snapshot
    /\ UNCHANGED << outvarVars, sys_modules, PATCH_INFO, hooks, PATCH, used, istate >>

\* m.f(*args)
Invoke(args) ==
    LET chain == bindings[WrappedModule][WrappedSym] IN
    /\ \A icp \in InterceptorIds :
         Len(istate[icp].info.captured.seq) + PatchCalls(chain, icp) <= MaxCapture
    /\ \E r \in invoke(chain, Len(chain), args, istate, << >>) :
         /\ istate' = r.ist
         /\ ev' = [Event("invoke") EXCEPT !.ns = WrappedModule, !.name = WrappedSym,
                                          !.args = args, !.val = r.val,
                                          !.trace = r.trace,
                                          !.raised = IF r.val = ErrV THEN "error" ELSE ""]
    /\ evpre' = Snapshot
    /\ UNCHANGED << outvarVars, sys_modules, bindings, PATCH_INFO, hooks, PATCH, used >>

NextWrap ==
    \/ \E icp \in PrefixInterceptors : PrefixAtom(icp)
    \/ \E icp \in PostfixInterceptors : PostfixAtom(icp)
    \/ \E args \in ArgPairs : Invoke(args)

SpecWrap == InitWrap /\ [][NextWrap]_vars

\* ------------------------------------------------------------------ claims
\* the names the last patch call asked for, after lines 133-138
LastNames == ResolveNames(prog, last.names).seq

LastIsPatchCall == last.kind \in { "patch_first", "patch_again", "patch_noop", "patch_raise" }

\* declared parameters of callable p
Params(p) == SubSeq(Progs[p].co_varnames, 1, Progs[p].co_argcount)

\* one return point, the last instruction
SingleReturn(p) ==
    /\ ReturnCount(Progs[p].code) = 1
    /\ Progs[p].code[Len(Progs[p].code)] = RETURN_VALUE

NoDuplicates(q) == Cardinality(Range(q)) = Len(q)

\* what the unpatched callable does for args: result and locals at return
Unpatched(args) == Run(prog, Progs[prog].code, args)

\* (r, v1, ..., vk): the unpatched result followed by the values the names
\* of N hold at the moment of return
ResultWith(N, args) ==
    TupleV(<< Unpatched(args).val >> \o [ k \in 1..Len(N) |-> Unpatched(args).loc[N[k]] ])

\* the rewrite the specification describes: before each RETURN_VALUE the
\* loads of N in order and one BUILD_TUPLE, everything else in place
RECURSIVE RewriteEveryReturn(_, _)
RewriteEveryReturn(c, N) ==
    IF c = <<>> THEN <<>>
    ELSE ( IF Head(c) = RETURN_VALUE
           THEN [ k \in 1..Len(N) |-> LOAD_FAST(N[k]) ] \o << BUILD_TUPLE(Len(N) + 1) >>
           ELSE <<>> )
         \o << Head(c) >> \o RewriteEveryReturn(Tail(c), N)

\* C1: after patch(f, N) on an unpatched f with a single return point (its
\* last instruction), N a non-empty list of parameters, every call returns
\* (r, v1, ..., vk): the unpatched result and the value of each name of N at
\* the moment of return.
C1_SingleReturnCapture ==
    ( /\ SingleReturn(prog)
      /\ last.kind = "patch_first"
      /\ Range(LastNames) \subseteq Range(Params(prog))
      /\ ret.called )
    => ret.val = ResultWith(LastNames, ret.args)

\* f(a, b) = a + b patched with "a": f(3, 4) returned (7, 3)
C1_Witness ==
    /\ prog = 1
    /\ last.kind = "patch_first"
    /\ last.names = NamesStr("a")
    /\ ret.called
    /\ ret.args = << 3, 4 >>
    /\ ret.val = TupleV(<< IntV(7), IntV(3) >>)

\* C2: for a callable with two or more return instructions, patch(f, N)
\* inserts before each of them the loads of N in order and one tuple-pack of
\* size len(N)+1 and leaves the rest in order, so every call returns
\* (original result, captured values at that return point).
C2_EveryReturnRewritten ==
    ( /\ ReturnCount(Progs[prog].code) >= 2
      /\ last.kind \in { "patch_first", "patch_raise" }
      /\ ~ is_patched(pre.info)
      /\ Len(LastNames) > 0 )
    => /\ last.raised = ""
       /\ func_code = RewriteEveryReturn(Progs[prog].code, LastNames)
       /\ ret.called => ret.val = ResultWith(LastNames, ret.args)

\* C3: after one or more patch calls, unpatch leaves f with exactly the
\* instruction sequence it had before the first patch, and f returns the bare
\* original result for every input.
C3_RoundTrip ==
    last.kind \in { "unpatch", "unpatch_noop" }
    => /\ func_code = Progs[prog].code
       /\ ret.called => ret.val = Unpatched(ret.args).val

\* two patches were stacked on f, unpatch put the code back, f(3, 4) is 7
C3_Witness ==
    /\ prog = 1
    /\ last.kind = "unpatch"
    /\ prevOp = "patch_again"
    /\ pre.code # Progs[prog].code
    /\ func_code = Progs[prog].code
    /\ ret.called
    /\ ret.args = << 3, 4 >>
    /\ ret.val = IntV(7)

\* C4: unpatch on a patched callable discards the metadata (is_patched is
\* false, get_info, get_capture and get_original return the absent
\* sentinel); unpatch on a callable that is not patched changes nothing.
C4_UnpatchDiscardsMetadata ==
    /\ last.kind = "unpatch"
       => /\ ~ is_patched(OUTPATCHINFO)
          /\ get_info(OUTPATCHINFO).none
          /\ get_capture(OUTPATCHINFO).none
          /\ get_original(OUTPATCHINFO).none
    /\ last.kind = "unpatch_noop"
       => /\ func_code = pre.code
          /\ OUTPATCHINFO = pre.info

\* C5: after patch(f, N1), unpatch(f), patch(f, N2) the capture list is
\* exactly N2 and calls return a tuple of length len(N2)+1.
C5_RepatchAfterUnpatch ==
    ( /\ SingleReturn(prog)
      /\ prevOp = "unpatch"
      /\ last.kind \in { "patch_first", "patch_again" } )
    => /\ OUTPATCHINFO.captured.seq = LastNames
       /\ ret.called => /\ ret.val.t = "tuple"
                        /\ Len(ret.val.s) = Len(LastNames) + 1

\* C6: patching an unpatched f with N1 and then with N2 yields the capture
\* list N2 followed by N1, and calls return (result, values of N2, values of
\* N1).
C6_AccumulationOrder ==
    ( /\ SingleReturn(prog)
      /\ prevOp = "patch_first"
      /\ last.kind \in { "patch_again", "patch_raise" }
      /\ Len(LastNames) > 0 )
    => /\ last.raised = ""
       /\ OUTPATCHINFO.captured.seq = LastNames \o pre.info.captured.seq
       /\ ret.called => ret.val = ResultWith(LastNames \o pre.info.captured.seq, ret.args)

\* C7: repeated patching is patching once with the union of the requested
\* names: the capture list holds each requested name exactly once and the
\* returned tuple has length 1 + |union|.  Stated for a second patch N2 on
\* top of a first patch N1, neither repeating a name in itself.
C7_UnionOfNames ==
    ( /\ SingleReturn(prog)
      /\ prevOp = "patch_first"
      /\ last.kind = "patch_again"
      /\ NoDuplicates(pre.info.captured.seq)
      /\ NoDuplicates(LastNames) )
    => /\ NoDuplicates(OUTPATCHINFO.captured.seq)
       /\ Range(OUTPATCHINFO.captured.seq) = Range(LastNames) \cup Range(pre.info.captured.seq)
       /\ ret.called
          => Len(ret.val.s) = 1 + Cardinality(Range(LastNames) \cup Range(pre.info.captured.seq))

\* C8: patch(f, names) with an empty names is a no-op: the instruction
\* sequence and the metadata (present or absent) are unchanged; for an
\* unpatched f, is_patched is false before and after.
C8_EmptyNamesNoOp ==
    ( /\ LastIsPatchCall
      /\ last.names.kind \in { "tuple", "list" }
      /\ last.names.seq = <<>> )
    => /\ last.raised = ""
       /\ func_code = pre.code
       /\ OUTPATCHINFO = pre.info
       /\ ~ is_patched(pre.info) => ~ is_patched(OUTPATCHINFO)

\* patch(f, []) on a patched f: the rewritten code and the capture list stay
C8_Witness ==
    /\ last.kind = "patch_noop"
    /\ last.names = [kind |-> "list", seq |-> <<>>]
    /\ prevOp = "patch_first"
    /\ is_patched(OUTPATCHINFO)
    /\ func_code # Progs[prog].code
    /\ ret.called
    /\ ret.val.t = "tuple"

\* C9: patch(f) with names omitted captures exactly the declared parameters
\* of f, in declaration order, and no other local; calls return (result,
\* final value of each parameter).
C9_OmittedNamesAreParams ==
    ( /\ SingleReturn(prog)
      /\ last.kind = "patch_first"
      /\ last.names = NamesNone )
    => /\ OUTPATCHINFO.captured.seq = Params(prog)
       /\ ret.called => ret.val = ResultWith(Params(prog), ret.args)

\* C10: whenever patch metadata exists on the callable, its captured list is
\* non-empty.
C10_CapturedNonEmpty ==
    is_patched(OUTPATCHINFO) => Len(OUTPATCHINFO.captured.seq) > 0

\* metadata exists after patch, patch, unpatch, and after an empty patch
C10_Witness ==
    /\ is_patched(OUTPATCHINFO)
    /\ last.kind = "patch_noop"
    /\ prevOp = "unpatch"
    /\ Len(OUTPATCHINFO.captured.seq) >= 3

\* -------------------------------- state machine of the elementary wrappers
\* m.f is one of ElemFuncs; m.f = elementary_prefix(m.f, i) and
\* m.f = elementary_postfix(m.f, i) wrap it, and m.f is called.
InitElementary ==
    /\ prog \in ElemFuncs
    /\ OutVarInit
    /\ EngineInit

\* m.f = Patching.elementary_prefix(m.f, interceptor)
ElementaryPrefix(icp) ==
    /\ Len(bindings[WrappedModule][WrappedSym]) < MaxLayers
    /\ bindings' = [bindings EXCEPT ![WrappedModule][WrappedSym] =
                      Append(@, Layer("elementary_prefix", icp))]
    /\ ev' = [Event("elementary") EXCEPT !.kind = "elementary_prefix", !.icp = icp,
                                         !.ns = WrappedModule, !.name = WrappedSym]
    /\ evpre' = Snapshot
    /\ UNCHANGED << outvarVars, sys_modules, PATCH_INFO, hooks, PATCH, used, istate >>

\* m.f = Patching.elementary_postfix(m.f, interceptor)
ElementaryPostfix(icp) ==
    /\ Len(bindings[WrappedModule][WrappedSym]) < MaxLayers
    /\ bindings' = [bindings EXCEPT ![WrappedModule][WrappedSym] =
                      Append(@, Layer("elementary_postfix", icp))]
    /\ ev' = [Event("elementary") EXCEPT !.kind = "elementary_postfix", !.icp = icp,
                                         !.ns = WrappedModule, !.name = WrappedSym]
    /\ evpre' = Snapshot
    /\ UNCHANGED << outvarVars, sys_modules, PATCH_INFO, hooks, PATCH, used, istate >>

\* m.f(*args)
ElementaryCall(args) ==
    LET chain == bindings[WrappedModule][WrappedSym]
        r == elementary_call(prog, chain, Len(chain), Values(args), << >>)
    IN  /\ ev' = [Event("call") EXCEPT !.ns = WrappedModule, !.name = WrappedSym,
                                       !.args = args, !.val = r.val, !.trace = r.trace,
                                       !.raised = IF r.val = ErrV THEN "error" ELSE ""]
        /\ evpre' = Snapshot
        /\ UNCHANGED << outvarVars, sys_modules, bindings, PATCH_INFO, hooks, PATCH, used,
                        istate >>

NextElementary ==
    \/ \E icp \in ElemInterceptors : ElementaryPrefix(icp)
    \/ \E icp \in ElemInterceptors : ElementaryPostfix(icp)
    \/ \E args \in ElemArgLists(prog) : ElementaryCall(args)

SpecElementary == InitElementary /\ [][NextElementary]_vars

\* -------------------------------------------- state machine of the engines
\* Engines A and B are used from the main module of the program: prefix and
\* postfix requests with the interceptor of QueuedInterceptors, and imports.
RECURSIVE CountLayers(_, _)
CountLayers(bind, targets) ==
    IF targets = {} THEN 0
    ELSE LET t == CHOOSE x \in targets : TRUE
         IN  Len(bind[t[1]][t[2]]) + CountLayers(bind, targets \ { t })

RECURSIVE CountPending(_, _)
CountPending(info, keys) ==
    IF keys = {} THEN 0
    ELSE LET k == CHOOSE x \in keys : TRUE
         IN  Cardinality(info[k[1]][k[2]]) + CountPending(info, keys \ { k })

\* wrapper layers and pending tuples in all
TotalPatches(bind, info) ==
    CountLayers(bind, Namespaces \X ModuleSyms) + CountPending(info, Engines \X Namespaces)

InitEngine ==
    /\ prog = 1
    /\ OutVarInit
    /\ EngineInit

\* e.prefix(ns, name, interceptor) / e.postfix(ns, name, interceptor), through
\* the _wrapper of _patch__import__, called from the main module (where
\* __builtins__ is the builtins module)
Request(e, kind, ns, name, icp) ==
    LET h == ensure_hook(hooks, PATCH, e)
        r == request(kind, e, ns, name, icp, bindings, PATCH_INFO)
    IN  /\ Len(h.hooks) <= MaxHooks
        /\ TotalPatches(r.bind, r.info) <= MaxPatches
        /\ hooks' = h.hooks
        /\ PATCH' = h.PATCH
        /\ used' = used \cup { e }
        /\ bindings' = r.bind
        /\ PATCH_INFO' = r.info
        /\ ev' = [Event("request") EXCEPT !.engine = e, !.kind = kind, !.ns = ns,
                                           !.name = name, !.icp = icp,
                                           !.raised = r.raised,
                                           !.notfound = r.notfound]
        /\ evpre' = Snapshot
        /\ UNCHANGED << outvarVars, sys_modules, istate >>

\* import ns: builtins.__import__(ns) with the hooks installed so far
Load(ns) ==
    /\ \E o \in import_call(hooks, Len(hooks), ns, bindings, PATCH_INFO) :
         /\ bindings' = o.bind
         /\ PATCH_INFO' = o.info
         /\ ev' = [Event("load") EXCEPT !.ns = ns, !.raised = o.raised,
                                        !.notfound = o.notfound, !.ret = o.ret]
    /\ sys_modules' = sys_modules \cup { ns }
    /\ evpre' = Snapshot
    /\ UNCHANGED << outvarVars, hooks, PATCH, used, istate >>

NextEngine ==
    \/ \E e \in Engines, kind \in { "prefix", "postfix" }, ns \in Namespaces,
          name \in SymbolNames, icp \in QueuedInterceptors :
         Request(e, kind, ns, name, icp)
    \/ \E ns \in Namespaces : Load(ns)

SpecEngine == InitEngine /\ [][NextEngine]_vars

\* ------------------------------------------------ claims about the wrappers
\* the layers on m.f when the last operation began
ChainBefore == evpre.bindings[WrappedModule][WrappedSym]

\* the interceptor as written, called with (args, kwargs, result): the value
\* it returns and its locals at that moment
PlainRun(icp, args, result) ==
    Exec(Interceptors[icp], 1, << >>, InterceptorLocals(args, result),
         Len(Interceptors[icp]) + 1)

\* step j of the last invocation is a prefix interceptor that returned a
\* false-like value
SignalsStop(j) ==
    /\ ev.trace[j].kind = "prefix"
    /\ ev.trace[j].out.t = "tuple"
    /\ ~ Truthy(ev.trace[j].out.s[1])

\* the steps of the last invocation in which the original function ran
OriginalRuns == { j \in 1..Len(ev.trace) : ev.trace[j].kind = "original" }

SignalsProceed(icp, args) == Truthy(PlainRun(icp, args, NoneV).val)

\* what the module's own function returns for args
OriginalResult(args) == Run(1, Progs[1].code, args).val

\* C12: when the prefix interceptor on a symbol returns any truthy value, the
\* invocation runs the original function exactly once, with the caller's
\* arguments, and returns its result.
C12_PrefixProceedOnTruthy ==
    (/\ ev.op = "invoke"
     /\ Len(ChainBefore) = 1
     /\ ChainBefore[1].kind = "prefix"
     /\ SignalsProceed(ChainBefore[1].icp, ev.args))
      => /\ Len(ev.trace) = 2
         /\ ev.trace[1].kind = "prefix"
         /\ ev.trace[2] = Ran("original", 0, OriginalResult(ev.args), OriginalResult(ev.args))
         /\ ev.val = OriginalResult(ev.args)

\* the value of _result in the postfix interceptor when it returns, and the
\* value it returns, for the call interceptor(args, kwargs, result)
FinalResult(icp, args, result) == PlainRun(icp, args, result).loc["_result"]
DirectReturn(icp, args, result) == PlainRun(icp, args, result).val

\* C13: an invocation of a symbol with a postfix interceptor calls the
\* original first and exactly once, then the interceptor with the original's
\* result; it returns the interceptor's final _result when that is truthy and
\* the interceptor's own return value otherwise.
C13_PostfixOverride ==
    (/\ ev.op = "invoke"
     /\ Len(ChainBefore) = 1
     /\ ChainBefore[1].kind = "postfix")
      => LET icp == ChainBefore[1].icp
             orig == OriginalResult(ev.args)
         IN  /\ Len(ev.trace) = 2
             /\ ev.trace[1] = Ran("original", 0, orig, orig)
             /\ ev.trace[2].kind = "postfix" /\ ev.trace[2].result = orig
             /\ DirectReturn(icp, ev.args, orig) # ErrV
                  => ev.val = IF Truthy(FinalResult(icp, ev.args, orig))
                              THEN FinalResult(icp, ev.args, orig)
                              ELSE DirectReturn(icp, ev.args, orig)

\* ------------------------------------------------- claims about the engines
\* the last operation is a prefix / postfix request
IsRequest == ev.op = "request"

\* the wrapper a request asks for
RequestedLayer == Layer(ev.kind, ev.icp)
RequestedEntry == Entry(ev.kind, ev.name, ev.icp)

\* C14: a prefix / postfix request for a module that is already imported
\* (is in sys.modules) and contains the symbol replaces the binding of the
\* symbol by the wrapper before it returns and adds no pending entry.
C14_ImmediateResolution ==
    (IsRequest /\ ev.ns \in sys_modules /\ ev.name \in ModuleSyms)
      => /\ bindings[ev.ns][ev.name] = Append(evpre.bindings[ev.ns][ev.name], RequestedLayer)
         /\ PATCH_INFO[ev.engine] = evpre.info[ev.engine]

\* the last operation is an import
IsLoad == ev.op = "load"

\* the tuples that were pending for module ns, of any engine, when the last
\* operation began
PendingBefore(e, ns) == evpre.info[e][ns]

\* the layers the last operation put on ns.sym
NewLayers(ns, sym) ==
    SubSeq(bindings[ns][sym], Len(evpre.bindings[ns][sym]) + 1, Len(bindings[ns][sym]))

\* every tuple pending for ns names a symbol the module has
AllPendingResolvable(ns) ==
    \A e \in Engines : \A tup \in PendingBefore(e, ns) : tup.name \in ModuleSyms

\* C15: a request for a module that is not imported yet changes no binding
\* and adds its tuple to the pending set of that module; when the module is
\* imported later, the symbol is bound to the interceptor's wrapper and the
\* tuple is no longer pending.
C15_DeferredApplication ==
    /\ (IsRequest /\ ev.ns \notin sys_modules)
         => /\ bindings = evpre.bindings
            /\ PATCH_INFO[ev.engine][ev.ns] = PendingBefore(ev.engine, ev.ns) \cup { RequestedEntry }
    /\ (IsLoad /\ AllPendingResolvable(ev.ns))
         => \A e \in Engines : \A tup \in PendingBefore(e, ev.ns) :
              /\ tup \notin PATCH_INFO[e][ev.ns]
              /\ Layer(tup.kind, tup.icp) \in Range(NewLayers(ev.ns, tup.name))

\* the tuples of all engines that were pending for ns.sym when the last
\* operation began
PendingFor(ns, sym) ==
    { << e, tup >> \in Engines \X UNION { PendingBefore(e, ns) : e \in Engines } :
        tup \in PendingBefore(e, ns) /\ tup.name = sym }

\* C16: an import of module M applies every tuple pending for M once, so that
\* none is left for a later import of M to apply again, and leaves the
\* pending sets and the bindings of every other module as they were.
C16_IdempotentDrain ==
    IsLoad =>
      /\ \A ns \in Namespaces \ { ev.ns } :
           /\ bindings[ns] = evpre.bindings[ns]
           /\ \A e \in Engines : PATCH_INFO[e][ns] = PendingBefore(e, ns)
      /\ AllPendingResolvable(ev.ns) =>
           /\ \A sym \in ModuleSyms :
                Len(NewLayers(ev.ns, sym)) = Cardinality(PendingFor(ev.ns, sym))
           /\ \A e \in Engines : PATCH_INFO[e][ev.ns] = {}

\* C17: once a hook is installed, every import returns the module object the
\* unhooked __import__ returns for it, whether or not tuples are pending.
C17_LoadResultUnchanged ==
    (IsLoad /\ Len(evpre.hooks) >= 1) => (ev.raised = "" /\ ev.ret = ModuleRef(ev.ns))

\* C18: builtins.__import__ never carries more hook layers than engines have
\* been used.
C18_HookOncePerEngine == Len(hooks) <= Cardinality(used)

\* both engines held a tuple for the module of the last operation, and the
\* module was not imported yet
BothPending ==
    /\ ev.ns \notin evpre.modules
    /\ \A e \in Engines : PendingBefore(e, ev.ns) # {}
    /\ AllPendingResolvable(ev.ns)

\* C19: when two engines each hold a pending tuple for the same module that is
\* not imported yet, one import of it completes without error, applies the
\* tuples of both and empties both pending sets; and a request on one engine
\* never changes the registry of the other.
C19_Coexistence ==
    /\ (IsLoad /\ BothPending)
         => /\ ev.raised = ""
            /\ \A e \in Engines :
                 /\ PATCH_INFO[e][ev.ns] = {}
                 /\ \A tup \in PendingBefore(e, ev.ns) :
                      Layer(tup.kind, tup.icp) \in Range(NewLayers(ev.ns, tup.name))
    /\ IsRequest => \A e \in Engines \ { ev.engine } : PATCH_INFO[e] = evpre.info[e]

\* C20: a request that is applied at once, to a module that does not contain
\* the symbol, raises AttributeError to the caller and leaves the bindings and
\* the pending registry as they were.
C20_MissingSymbolImmediate ==
    (IsRequest /\ resolves_now(ev.ns) /\ ev.name \notin ModuleSyms)
      => /\ ev.raised = "AttributeError"
         /\ bindings = evpre.bindings
         /\ PATCH_INFO = evpre.info

\* A.prefix("inspect", "g", ...) raises while inspect.f is wrapped and a
\* tuple is pending
C20_Witness ==
    /\ IsRequest
    /\ ev.ns = "inspect" /\ ev.name = "g"
    /\ ev.raised = "AttributeError"
    /\ Len(bindings["inspect"]["f"]) >= 1
    /\ \E e \in Engines, ns \in Namespaces : PATCH_INFO[e][ns] # {}

\* ------------------------------------------------ claims about the chains
\* the prefix interceptor as written returns a false-like value / a value
\* that is not false-like
PlainStop(icp, args) ==
    LET r == PlainRun(icp, args, NoneV).val IN r # ErrV /\ ~ Truthy(r)

\* what the wrapper of postfix icp is to return for the call with args when
\* the function below it returned result
PostfixValue(icp, args, result) ==
    IF Truthy(FinalResult(icp, args, result)) THEN FinalResult(icp, args, result)
    ELSE DirectReturn(icp, args, result)

\* step j of the last invocation ran interceptor icp of the given kind
StepIs(j, kind, icp) ==
    /\ j <= Len(ev.trace)
    /\ ev.trace[j].kind = kind
    /\ ev.trace[j].icp = icp

\* C21: an application wraps the binding as it is.  With prefixes P1 then P2
\* an invocation runs P2, then P1, then the original, and a do-not-proceed of
\* P2 keeps P1 and the original from running; with postfixes Q1 then Q2 it
\* runs the original, Q1, Q2, and Q2 is handed what the wrapper of Q1 returns.
C21_Chaining ==
    /\ ev.op = "atom"
         => bindings[WrappedModule][WrappedSym] = Append(ChainBefore, Layer(ev.kind, ev.icp))
    /\ (/\ ev.op = "invoke"
        /\ Len(ChainBefore) = 2
        /\ ChainBefore[1].kind = "prefix" /\ ChainBefore[2].kind = "prefix")
         => LET P1 == ChainBefore[1].icp
                P2 == ChainBefore[2].icp
            IN  /\ StepIs(1, "prefix", P2)
                /\ IF PlainStop(P2, ev.args) THEN Len(ev.trace) = 1
                   ELSE /\ StepIs(2, "prefix", P1)
                        /\ IF PlainStop(P1, ev.args) THEN Len(ev.trace) = 2
                           ELSE Len(ev.trace) = 3 /\ StepIs(3, "original", 0)
    /\ (/\ ev.op = "invoke"
        /\ Len(ChainBefore) = 2
        /\ ChainBefore[1].kind = "postfix" /\ ChainBefore[2].kind = "postfix")
         => LET Q1 == ChainBefore[1].icp
                Q2 == ChainBefore[2].icp
                orig == OriginalResult(ev.args)
            IN  /\ Len(ev.trace) = 3
                /\ StepIs(1, "original", 0)
                /\ StepIs(2, "postfix", Q1) /\ ev.trace[2].result = orig
                /\ StepIs(3, "postfix", Q2)
                /\ ev.trace[3].result = PostfixValue(Q1, ev.args, orig)

\* ------------------------------------- claims about the elementary wrappers
\* the steps of the last call in which the wrapped callable ran
FuncRuns == { j \in 1..Len(ev.trace) : ev.trace[j].kind = "func" }

\* C22: a wrapper built by elementary_prefix / elementary_postfix calls func
\* exactly once with the argument list the wrapper received; the interceptor
\* runs with (args, kwargs) before func for a prefix, with (args, kwargs,
\* result of func) after func for a postfix, whatever it returns.
C22_ElementaryForwarding ==
    (ev.op = "call" /\ Len(ChainBefore) = 1)
      => LET vals == Values(ev.args)
             icp == ChainBefore[1].icp
         IN  /\ Cardinality(FuncRuns) = 1
             /\ \A j \in FuncRuns : ev.trace[j].result = TupleV(vals)
             /\ IF ChainBefore[1].kind = "elementary_prefix"
                THEN /\ Len(ev.trace) = 2
                     /\ StepIs(1, "elementary_prefix", icp)
                     /\ ev.trace[1].result = TupleV(<< TupleV(vals), DictV >>)
                     /\ StepIs(2, "func", 0)
                ELSE /\ Len(ev.trace) = 2
                     /\ StepIs(1, "func", 0)
                     /\ StepIs(2, "elementary_postfix", icp)
                     /\ ev.trace[2].result = TupleV(<< TupleV(vals), DictV, RunWith(prog, vals) >>)

\* ------------------------------------------- claims about repeated patching
\* the last patch call rewrote f
LastPatchRewrote == last.kind \in { "patch_first", "patch_again" }

InterceptorsRun ==
    { ev.trace[j].icp : j \in { i \in 1..Len(ev.trace) : ev.trace[i].kind # "original" } }

\* C24: after every invocation of a wrapped symbol the capture list of each
\* interceptor that ran is ('_result',), its code is the rewrite of its
\* original for that list, and the tuple it returned has length 2.
C24_NoStateAccumulation ==
    ev.op = "invoke" =>
      /\ \A icp \in InterceptorsRun :
           /\ get_capture(istate[icp].info).val.seq = << "_result" >>
           /\ istate[icp].code = RewriteEveryReturn(Interceptors[icp], << "_result" >>)
      /\ \A j \in 1..Len(ev.trace) :
           (ev.trace[j].kind # "original" /\ ev.trace[j].out.t = "tuple")
             => Len(ev.trace[j].out.s) = 2

\* the tuples of engine e pending for ns that name a symbol ns does not have
MissingPending(e, ns) == { tup \in PendingBefore(e, ns) : tup.name \notin ModuleSyms }

\* the tuples of all engines the last operation took out of the pending set
\* of ns and that name sym
RemovedFor(ns, sym) ==
    { << e, tup >> \in PendingFor(ns, sym) : tup \notin PATCH_INFO[e][ns] }

\* C25: an import of a module for which a pending tuple names a symbol the
\* module does not have raises the "not found" AttributeError of that symbol;
\* the failing tuple and the tuples not visited yet stay pending, the tuples
\* taken out of the pending set are the ones applied before the failure (one
\* new layer each), and, the failing tuple being pending still, the next
\* import of the module is in the same case.
C25_DrainMissingSymbol ==
    (IsLoad /\ \E e \in Engines : MissingPending(e, ev.ns) # {})
      => /\ ev.raised = "AttributeError"
         /\ ev.notfound \in SymbolNames \ ModuleSyms
         /\ \A e \in Engines :
              /\ PATCH_INFO[e][ev.ns] \subseteq PendingBefore(e, ev.ns)
              /\ MissingPending(e, ev.ns) \subseteq PATCH_INFO[e][ev.ns]
         /\ \A sym \in ModuleSyms :
              Len(NewLayers(ev.ns, sym)) = Cardinality(RemovedFor(ev.ns, sym))

\* the last operation is a request that is queued, for a tuple that was
\* pending already
RepeatedRequest ==
    /\ IsRequest
    /\ ~ resolves_now(ev.ns)
    /\ RequestedEntry \in PendingBefore(ev.engine, ev.ns)

\* C26: a queued request for a tuple that is pending already leaves the
\* pending set as it was, so that the tuple is pending once however often it
\* was requested; an import puts one layer on a symbol for each tuple pending
\* for it; a request that is applied at once puts one more layer on the
\* symbol each time.
C26_PendingSetSemantics ==
    /\ RepeatedRequest
         => /\ PATCH_INFO[ev.engine][ev.ns] = PendingBefore(ev.engine, ev.ns)
            /\ Cardinality({ tup \in PATCH_INFO[ev.engine][ev.ns] : tup = RequestedEntry }) = 1
    /\ (IsLoad /\ AllPendingResolvable(ev.ns))
         => \A e \in Engines : \A tup \in PendingBefore(e, ev.ns) :
              Cardinality({ j \in 1..Len(NewLayers(ev.ns, tup.name)) :
                              NewLayers(ev.ns, tup.name)[j] = Layer(tup.kind, tup.icp) })
                = Cardinality({ d \in Engines : tup \in PendingBefore(d, ev.ns) })
    /\ (IsRequest /\ resolves_now(ev.ns) /\ ev.name \in ModuleSyms)
         => bindings[ev.ns][ev.name] = Append(evpre.bindings[ev.ns][ev.name], RequestedLayer)

====
